---- MODULE Spec2Model ----
(***************************************************************************)
(* Lyric-Finder: the POST /lyrics handler (query parsing, the provider     *)
(* chain lyrics-finder -> Genius, the Genius result ranking, the final      *)
(* rendering) and the sanitizeLyrics text clean-up.                         *)
(*                                                                         *)
(* Text is modelled as a sequence of chunks.  A chunk is a short literal   *)
(* piece of text ("x", " ", "by", "Lyrics", "[Verse 1]", ...) and a text is *)
(* the concatenation of its chunks.  Every regular expression of the code  *)
(* is translated to the chunk level; the chunk alphabets are chosen so     *)
(* that the words the expressions look for occur only as whole chunks.     *)
(* The regular expressions are case-insensitive (/i): there a chunk stands *)
(* for all its case variants.  Where the code lower-cases text itself      *)
(* (toLowerCase), upper- and lower-case chunks are told apart.             *)
(***************************************************************************)
EXTENDS Integers, Sequences, FiniteSets, TLC

VARIABLES
    pc,        \* position of the handler: the await it is suspended at
    body,      \* req.body.song as posted
    songQuery, \* const songQuery (trimmed body)
    parsed,    \* const parsed = parseQuery(songQuery)
    lyrics,    \* let lyrics
    provider,  \* let provider
    results,   \* const results (Genius search results)
    ranked,    \* const ranked
    chosen,    \* index in results of const chosen (0: none)
    calls,     \* the provider calls made so far, with what each returned
    rendered,  \* the arguments of res.render
    text       \* the text handed to sanitizeLyrics, and what became of it

vars == <<pc, body, songQuery, parsed, lyrics, provider, results, ranked,
          chosen, calls, rendered, text>>

(***************************************************************************)
(* Bounds of the model.                                                    *)
(***************************************************************************)
MaxQueryLen == 7
MaxTextLen == 3
MaxResults == 3

(***************************************************************************)
(* Text helpers.                                                           *)
(***************************************************************************)
\* \s of a JavaScript regular expression, and what trim() removes
IsWs(c) == c \in {" ", "\t", "\n", "\r"}

\* \d
IsDigit(c) == c \in {"5"}

\* \w at the edge of a chunk: chunks made of letters or digits
IsWordChunk(c) == c \in {"x", "X", "y", "Y", "by", "5", "Lyrics", "Contributors",
                         "Embed", "Read More", "You might also like"}

\* a line terminator: what . does not match and what ^ (flag m) follows
IsNl(c) == c = "\n"

SeqsUpTo(S, n) == UNION {[1..k -> S] : k \in 0..n}

Drop(s, n) == SubSeq(s, n + 1, Len(s))

\* number of leading whitespace chunks
LeadWs(s) ==
    IF \A i \in 1..Len(s) : IsWs(s[i]) THEN Len(s)
    ELSE (CHOOSE i \in 1..Len(s) : ~IsWs(s[i]) /\ \A j \in 1..(i-1) : IsWs(s[j])) - 1

\* number of trailing whitespace chunks
TrailWs(s) ==
    IF \A i \in 1..Len(s) : IsWs(s[i]) THEN Len(s)
    ELSE Len(s) - (CHOOSE i \in 1..Len(s) : ~IsWs(s[i]) /\ \A j \in (i+1)..Len(s) : IsWs(s[j]))

\* String.prototype.trimStart
TrimStart(s) == Drop(s, LeadWs(s))

\* String.prototype.trim
Trim(s) ==
    IF \A i \in 1..Len(s) : IsWs(s[i]) THEN <<>>
    ELSE SubSeq(s, LeadWs(s) + 1, Len(s) - TrailWs(s))

\* String.prototype.includes
Includes(s, sub) ==
    \E i \in 0..(Len(s) - Len(sub)) : SubSeq(s, i + 1, i + Len(sub)) = sub

\* q.replace(/\s+/g, ' '): every maximal run of whitespace becomes one space
RECURSIVE NormalizeWs(_)
NormalizeWs(q) ==
    IF q = <<>> THEN <<>>
    ELSE IF IsWs(q[1]) THEN <<" ">> \o NormalizeWs(Drop(q, LeadWs(q)))
    ELSE <<q[1]>> \o NormalizeWs(Tail(q))

\* s starts with the separator ' - '
DashAt(s, i) == i + 2 <= Len(s) /\ s[i] = " " /\ s[i+1] = "-" /\ s[i+2] = " "

\* s.split(' - '): the parts between the occurrences found left to right
RECURSIVE SplitDash(_)
SplitDash(s) ==
    IF \E i \in 1..Len(s) : DashAt(s, i)
    THEN LET i == CHOOSE k \in 1..Len(s) : DashAt(s, k) /\ \A j \in 1..(k-1) : ~DashAt(s, j)
         IN  <<SubSeq(s, 1, i - 1)>> \o SplitDash(Drop(s, i + 2))
    ELSE <<s>>

(***************************************************************************)
(* parseQuery                                                              *)
(***************************************************************************)
NoNl(s) == \A i \in 1..Len(s) : ~IsNl(s[i])

\* /^(.+?)\s+by\s+(.+)$/i with group 1 = s[1..p]: whitespace, "by", whitespace
\* and at least one more character follow it
ByAt(s, p) ==
    /\ p >= 1
    /\ NoNl(SubSeq(s, 1, p))
    /\ \E a \in (p+1)..Len(s) :
          /\ \A j \in (p+1)..a : IsWs(s[j])
          /\ a + 3 <= Len(s)
          /\ s[a+1] = "by"
          /\ IsWs(s[a+2])
          /\ NoNl(SubSeq(s, a + 3 + LeadWs(Drop(s, a + 2)), Len(s)))
          /\ (LeadWs(Drop(s, a + 1)) = Len(s) - a - 1 => ~IsNl(s[Len(s)]))

\* the end of the whitespace run that precedes "by" for group 1 = s[1..p]
ByWsEnd(s, p) ==
    CHOOSE a \in (p+1)..Len(s) :
          /\ \A j \in (p+1)..a : IsWs(s[j])
          /\ a + 3 <= Len(s) /\ s[a+1] = "by" /\ IsWs(s[a+2])

HasByMatch(s) == \E p \in 1..Len(s) : ByAt(s, p)

\* the lazy group 1 is the shortest one
ByGroup1End(s) == CHOOSE p \in 1..Len(s) : ByAt(s, p) /\ \A r \in 1..(p-1) : ~ByAt(s, r)

NoAlt == [title |-> <<>>, artist |-> <<>>]

\* the mutant of parseQuery whose alternate repeats the primary reading
parseQuerySameAlt(q) ==
    LET normalized == Trim(NormalizeWs(q))
        dashParts == SplitDash(normalized)
    IN  IF HasByMatch(normalized)
        THEN LET p == ByGroup1End(normalized)
                 a == ByWsEnd(normalized, p)
             IN  [title |-> Trim(SubSeq(normalized, 1, p)),
                  artist |-> Trim(Drop(normalized, a + 1)),
                  hasAlt |-> FALSE, alt |-> NoAlt]
        ELSE IF Len(dashParts) = 2
        THEN [title |-> Trim(dashParts[2]), artist |-> Trim(dashParts[1]), hasAlt |-> TRUE,
              alt |-> [title |-> Trim(dashParts[2]), artist |-> Trim(dashParts[1])]]
        ELSE [title |-> normalized, artist |-> <<>>, hasAlt |-> FALSE, alt |-> NoAlt]

\* artist <<>> is the code's null; hasAlt says whether the result has an alt
parseQuery(q) ==
    LET normalized == Trim(NormalizeWs(q))
        dashParts == SplitDash(normalized)
    IN  IF HasByMatch(normalized)
        THEN LET p == ByGroup1End(normalized)
                 a == ByWsEnd(normalized, p)
             IN  [title |-> Trim(SubSeq(normalized, 1, p)),
                  artist |-> Trim(Drop(normalized, a + 1)),
                  hasAlt |-> FALSE, alt |-> NoAlt]
        ELSE IF Len(dashParts) = 2
        THEN [title |-> Trim(dashParts[2]), artist |-> Trim(dashParts[1]), hasAlt |-> TRUE,
              alt |-> [title |-> Trim(dashParts[1]), artist |-> Trim(dashParts[2])]]
        ELSE [title |-> normalized, artist |-> <<>>, hasAlt |-> FALSE, alt |-> NoAlt]

(***************************************************************************)
(* The Genius result ranking (lines 152-159).                              *)
(***************************************************************************)
\* String.prototype.toLowerCase, chunk by chunk
LowerChunk(c) ==
    CASE c = "X" -> "x"
      [] c = "Y" -> "y"
      [] c = "[Verse 1]" -> "[verse 1]"
      [] OTHER -> c

toLowerCase(s) == [i \in 1..Len(s) |-> LowerChunk(s[i])]

\* const needle = (parsed.title || songQuery).toLowerCase()
Needle(p, q) == toLowerCase(IF p.title # <<>> THEN p.title ELSE q)

\* (r.title || '').toLowerCase().includes(needle)
TitleMatch(r, p, q) == Includes(toLowerCase(r.title), Needle(p, q))

\* r.artist?.name && parsed.artist && r.artist.name.toLowerCase().includes(...)
ArtistMatch(r, p) ==
    /\ r.artist # <<>>
    /\ p.artist # <<>>
    /\ Includes(toLowerCase(r.artist), toLowerCase(p.artist))

\* the score expression as JavaScript parses it: the conditional binds weaker
\* than +, so "0 + (...)" is the whole else branch
Score(r, p, q) ==
    IF TitleMatch(r, p, q) THEN 2 ELSE 0 + (IF ArtistMatch(r, p) THEN 1 ELSE 0)

\* results.map(r => ({ item: r, score: ... })); item is the index in results
Scored(rs, p, q) == [i \in 1..Len(rs) |-> [item |-> i, score |-> Score(rs[i], p, q)]]

\* the mutant comparator: ascending
ComesBeforeAsc(a, b) == a.score < b.score

\* the comparator (a,b) => b.score - a.score is negative: a sorts before b
ComesBefore(a, b) == b.score - a.score < 0

\* Array.prototype.sort is stable: x goes after every element it does not
\* strictly precede
RECURSIVE InsertSorted(_, _)
InsertSorted(x, s) ==
    IF s = <<>> THEN <<x>>
    ELSE IF ComesBefore(x, s[1]) THEN <<x>> \o s
    ELSE <<s[1]>> \o InsertSorted(x, Tail(s))

RECURSIVE SortByScore(_)
SortByScore(s) ==
    IF s = <<>> THEN <<>>
    ELSE InsertSorted(s[Len(s)], SortByScore(SubSeq(s, 1, Len(s) - 1)))

Rank(rs, p, q) == SortByScore(Scored(rs, p, q))

\* const chosen = (ranked[0] || { item: results[0] }).item
Chosen(rk) == IF Len(rk) > 0 THEN rk[1].item ELSE 1

(***************************************************************************)
(* sanitizeLyrics (lines 26-53), one operator per statement.               *)
(***************************************************************************)
\* number of leading digit chunks
LeadDigits(s) ==
    IF \A i \in 1..Len(s) : IsDigit(s[i]) THEN Len(s)
    ELSE (CHOOSE i \in 1..Len(s) : ~IsDigit(s[i]) /\ \A j \in 1..(i-1) : IsDigit(s[j])) - 1

\* number of trailing digit chunks
TrailDigits(s) ==
    IF \A i \in 1..Len(s) : IsDigit(s[i]) THEN Len(s)
    ELSE Len(s) - (CHOOSE i \in 1..Len(s) : ~IsDigit(s[i]) /\ \A j \in (i+1)..Len(s) : IsDigit(s[j]))

\* number of leading line terminators
LeadNl(s) ==
    IF \A i \in 1..Len(s) : IsNl(s[i]) THEN Len(s)
    ELSE (CHOOSE i \in 1..Len(s) : ~IsNl(s[i]) /\ \A j \in 1..(i-1) : IsNl(s[j])) - 1

\* String(raw).replace(/\r/g, '')
RECURSIVE RemoveCR(_)
RemoveCR(t) ==
    IF t = <<>> THEN <<>>
    ELSE IF t[1] = "\r" THEN RemoveCR(Tail(t))
    ELSE <<t[1]>> \o RemoveCR(Tail(t))

\* .*?Lyrics at the head of s: the place of the first "Lyrics", 0 when there
\* is none or a line terminator comes before it
LyricsOnFirstLine(s) ==
    IF \E j \in 1..Len(s) : s[j] = "Lyrics" /\ \A k \in 1..(j-1) : ~IsNl(s[k])
    THEN CHOOSE j \in 1..Len(s) : s[j] = "Lyrics" /\ \A k \in 1..(j-1) : s[k] # "Lyrics"
    ELSE 0

\* s without its first n chunks and the whitespace that follows them
DropWithWs(s, n) == Drop(s, n + LeadWs(Drop(s, n)))

\* text.replace(/^\s*\d+\s*Contributors.*?Lyrics\s*/i, '')
StripContributors(t) ==
    LET w1 == LeadWs(t)
        d  == LeadDigits(Drop(t, w1))
        w2 == LeadWs(Drop(t, w1 + d))
        c  == w1 + d + w2 + 1
        j  == LyricsOnFirstLine(Drop(t, c))
    IN  IF d >= 1 /\ c <= Len(t) /\ t[c] = "Contributors" /\ j > 0
        THEN DropWithWs(t, c + j)
        ELSE t

\* text.replace(/^\s*.*?Lyrics\s*/i, '')
StripLeadingHeader(t) ==
    LET w == LeadWs(t)
        j == LyricsOnFirstLine(Drop(t, w))
    IN  IF j > 0 THEN DropWithWs(t, w + j) ELSE t

\* the place of the first line terminator after place i, 0 when there is none
NlAfter(t, i) ==
    IF \E n \in (i+1)..Len(t) : IsNl(t[n])
    THEN CHOOSE n \in (i+1)..Len(t) : IsNl(t[n]) /\ \A k \in (i+1)..(n-1) : ~IsNl(t[k])
    ELSE 0

\* \bRead More\b[\s\S]*?\n matches at place i
ReadMoreAt(t, i) ==
    /\ t[i] = "Read More"
    /\ (i = 1 \/ ~IsWordChunk(t[i-1]))
    /\ i < Len(t)
    /\ ~IsWordChunk(t[i+1])
    /\ NlAfter(t, i) > 0

\* text.replace(/\bRead More\b[\s\S]*?\n/gi, '')
RECURSIVE RemoveReadMore(_)
RemoveReadMore(t) ==
    IF \E i \in 1..Len(t) : ReadMoreAt(t, i)
    THEN LET i == CHOOSE k \in 1..Len(t) : ReadMoreAt(t, k) /\ \A j \in 1..(k-1) : ~ReadMoreAt(t, j)
         IN  SubSeq(t, 1, i - 1) \o RemoveReadMore(Drop(t, NlAfter(t, i)))
    ELSE t

\* You might also like[\s\S]*?\n matches at place i
TeaserAt(t, i) == t[i] = "You might also like" /\ NlAfter(t, i) > 0

\* text.replace(/You might also like[\s\S]*?\n/gi, '')
RECURSIVE RemoveTeasers(_)
RemoveTeasers(t) ==
    IF \E i \in 1..Len(t) : TeaserAt(t, i)
    THEN LET i == CHOOSE k \in 1..Len(t) : TeaserAt(t, k) /\ \A j \in 1..(k-1) : ~TeaserAt(t, j)
         IN  SubSeq(t, 1, i - 1) \o RemoveTeasers(Drop(t, NlAfter(t, i)))
    ELSE t

\* text.replace(/\n?\s*\d*\s*Embed\s*$/i, ''): the leftmost match is the
\* longest tail made of whitespace, digits, whitespace, Embed, whitespace
StripEmbed(t) ==
    LET e  == Len(t) - TrailWs(t)
        w2 == TrailWs(SubSeq(t, 1, e - 1))
        d  == TrailDigits(SubSeq(t, 1, e - 1 - w2))
        w1 == TrailWs(SubSeq(t, 1, e - 1 - w2 - d))
    IN  IF e >= 1 /\ t[e] = "Embed"
        THEN SubSeq(t, 1, e - 1 - w2 - d - w1)
        ELSE t

\* the chunks that match /\[\s*verse\s*1\b[^\]]*\]/i
verse1Re == {"[Verse 1]"}

\* the chunks that match /\[\s*verse\b[^\]]*\]/i
anyVerseRe == {"[Verse 1]", "[Verse 2]"}

\* the chunks that match
\* /\[(?:verse|chorus|intro|bridge|pre-chorus|prechorus|refrain|outro)[^\]]*\]/i
anyHeaderRe == {"[Verse 1]", "[Verse 2]", "[Chorus]"}

\* ^ under flag m: the start of the text or of a line
LineStart(t, i) == i = 1 \/ IsNl(t[i-1])

\* text.match(re)?.index ?? -1 for a header expression re, anchored by ^
\* under flag m; counted from 0
MatchIndex(t, re) ==
    IF \E i \in 1..Len(t) : t[i] \in re /\ LineStart(t, i)
    THEN (CHOOSE i \in 1..Len(t) :
             /\ t[i] \in re /\ LineStart(t, i)
             /\ \A j \in 1..(i-1) : ~(t[j] \in re /\ LineStart(t, j))) - 1
    ELSE -1

\* const cutIndex = ...
CutIndex(t) ==
    IF MatchIndex(t, verse1Re) >= 0 THEN MatchIndex(t, verse1Re)
    ELSE IF MatchIndex(t, anyVerseRe) >= 0 THEN MatchIndex(t, anyVerseRe)
    ELSE MatchIndex(t, anyHeaderRe)

\* if (cutIndex > 0) text = text.slice(cutIndex).trimStart()
CutAtHeader(t) == IF CutIndex(t) > 0 THEN TrimStart(Drop(t, CutIndex(t))) ELSE t

\* text.replace(/\n{3,}/g, '\n\n')
RECURSIVE CollapseNewlines(_)
CollapseNewlines(t) ==
    IF t = <<>> THEN <<>>
    ELSE IF IsNl(t[1])
    THEN LET n == LeadNl(t)
         IN  (IF n >= 3 THEN <<"\n", "\n">> ELSE SubSeq(t, 1, n)) \o CollapseNewlines(Drop(t, n))
    ELSE <<t[1]>> \o CollapseNewlines(Tail(t))

sanitizeLyrics(raw) ==
    IF raw = <<>> THEN raw
    ELSE Trim(CollapseNewlines(CutAtHeader(StripEmbed(RemoveTeasers(RemoveReadMore(
         StripLeadingHeader(StripContributors(RemoveCR(raw)))))))))

(***************************************************************************)
(* The Genius-only trim of the final rendering (lines 176-190).            *)
(***************************************************************************)
\* lower.indexOf('[verse 1]'), counted from 0
IndexOfVerse1(t) ==
    LET lower == toLowerCase(t)
    IN  IF \E i \in 1..Len(t) : lower[i] = "[verse 1]"
        THEN (CHOOSE i \in 1..Len(t) : lower[i] = "[verse 1]" /\ \A j \in 1..(i-1) : lower[j] # "[verse 1]") - 1
        ELSE -1

\* let cutAt = m && m.index !== undefined ? m.index : -1; if (cutAt < 0) ...
CutAt(t) == IF MatchIndex(t, verse1Re) >= 0 THEN MatchIndex(t, verse1Re) ELSE IndexOfVerse1(t)

\* if (cutAt > 0) finalLyrics = finalLyrics.slice(cutAt).trimStart()
StartAtVerse1(t) == IF CutAt(t) > 0 THEN TrimStart(Drop(t, CutAt(t))) ELSE t

(***************************************************************************)
(* The POST /lyrics handler (lines 90-196).  An action is the code between *)
(* two awaits: it resumes the handler with what the awaited provider call  *)
(* returned, or with the error it threw, and runs to the next await or to  *)
(* res.render.                                                             *)
(***************************************************************************)
\* req.body.song as posted, for the handler as a whole
Bodies ==
    { <<>>, <<" ">>,
      <<"x">>,
      <<" ", "x", "\t", "y", " ">>,
      <<"x", " ", "by", " ", "y">>,
      <<"y", " ", "-", " ", "x">> }

\* req.body.song as posted, for the parser
QueryChunks == {"x", " ", "\t", "-", "by"}

Queries == SeqsUpTo(QueryChunks, MaxQueryLen)

\* the lyrics a provider may return
Lyrics ==
    { <<"x">>,
      <<"x", " ", "Lyrics", "x", "\n", "[Verse 1]", "\n", "x", "5", "Embed">>,
      <<"[Chorus]", " ", "[Verse 1]", "\n", "x">> }

\* what an awaited call does: it throws, or it returns a text ('' when empty)
TextOutcomes == {[threw |-> TRUE, text |-> <<>>]} \cup
                {[threw |-> FALSE, text |-> t] : t \in {<<>>} \cup Lyrics}

\* the songs Genius may list: title and artist.name (<<>>: no artist)
Songs ==
    { [title |-> <<"X">>, artist |-> <<"Y">>],
      [title |-> <<"x">>, artist |-> <<"x">>],
      [title |-> <<"y">>, artist |-> <<"y">>],
      [title |-> <<"y">>, artist |-> <<>>] }

\* what genius.songs.search does: it throws, or it returns a list (empty
\* when it found nothing)
SearchOutcomes == {[threw |-> TRUE, list |-> <<>>]} \cup
                  {[threw |-> FALSE, list |-> l] : l \in SeqsUpTo(Songs, MaxResults)}

NoParse == [title |-> <<>>, artist |-> <<>>, hasAlt |-> FALSE, alt |-> NoAlt]

NoRender == [view |-> "none", lyricsNull |-> TRUE, lyrics |-> <<>>, error |-> "none",
             song |-> <<>>, provider |-> "undefined"]

Call(step, artist, title, item, o) ==
    [step |-> step, artist |-> artist, title |-> title, item |-> item,
     threw |-> o.threw, text |-> o.text]

\* res.render('index', { lyrics: null, error: 'Please enter a song name.', ... })
RenderEmptyQuery ==
    [view |-> "index", lyricsNull |-> TRUE, lyrics |-> <<>>, error |-> "Please enter a song name.",
     song |-> <<>>, provider |-> "undefined"]

\* the outer catch: res.render('index', { lyrics: null, error: 'Something went wrong ...' })
RenderWentWrong(q) ==
    [view |-> "index", lyricsNull |-> TRUE, lyrics |-> <<>>,
     error |-> "Something went wrong fetching lyrics. Try again.",
     song |-> q, provider |-> "undefined"]

\* lines 171-191: the not-found page, or the lyrics (Genius' from [Verse 1] on)
Render(l, prov, q) ==
    IF l = <<>>
    THEN [view |-> "index", lyricsNull |-> TRUE, lyrics |-> <<>>, error |-> "No lyrics found",
          song |-> q, provider |-> "undefined"]
    ELSE [view |-> "index", lyricsNull |-> FALSE,
          lyrics |-> IF prov = "genius" THEN StartAtVerse1(l) ELSE l,
          error |-> "none", song |-> q, provider |-> prov]

\* if (!lyrics && parsed?.alt)
NeedsAlt(l, p) == l = <<>> /\ p.hasAlt

\* the mutant of NeedsFreeform that makes the freeform call whatever came before
NeedsFreeformAlways(l, p) == TRUE

\* if (!lyrics), line 133
NeedsFreeform(l, p) == l = <<>>

\* the mutant of NeedsGenius that always asks Genius
NeedsGeniusAlways(l) == TRUE

\* if (!lyrics), line 143
NeedsGenius(l) == l = <<>>

\* where the try block of lines 124-137 goes after step: the next await in
\* it, or out of it ("primary_done")
AfterPrimary(step, l, p) ==
    IF step = "start" /\ p.artist # <<>> THEN "await_parsed"
    ELSE IF step \in {"start", "parsed"} /\ NeedsAlt(l, p) THEN "await_alt"
    ELSE IF step \in {"start", "parsed", "alt"} /\ NeedsFreeform(l, p) THEN "await_freeform"
    ELSE "primary_done"

\* the mutant of AfterPrimaryThrew with one try/catch per call
AfterPrimaryThrewNextStep(step, l, p) == AfterPrimary(step, l, p)

\* where the handler goes when the call of step threw: catch (e1), line 138
AfterPrimaryThrew(step, l, p) == "primary_done"

\* the mutant of GeniusCatch that lets the error reach the outer catch
GeniusCatchRethrow(l, prov, q) == RenderWentWrong(q)

\* catch (_) of line 165, and on to the rendering
GeniusCatch(l, prov, q) == Render(l, prov, q)

\* provider = lyrics ? <tag> : null
Tag(l, tag) == IF l # <<>> THEN tag ELSE "null"

\* the mutant of TagOf that leaves the tag of the parsed step on every result
TagOfParsed(step) == "lyrics-finder(parsed)"

TagOf(step) ==
    CASE step = "parsed" -> "lyrics-finder(parsed)"
      [] step = "alt" -> "lyrics-finder(alt)"
      [] step = "freeform" -> "lyrics-finder(freeform)"
      [] step = "fetch" -> "genius"

Init ==
    /\ pc = "idle"
    /\ body \in Bodies
    /\ songQuery = <<>>
    /\ parsed = NoParse
    /\ lyrics = <<>>
    /\ provider = "null"
    /\ results = <<>>
    /\ ranked = <<>>
    /\ chosen = 0
    /\ calls = <<>>
    /\ rendered = NoRender
    /\ text = <<>>

\* out of the primary try block with lyrics l: the Genius fallback or the page
LeavePrimary(l, prov) ==
    IF NeedsGenius(l)
    THEN /\ pc' = "await_search"
         /\ UNCHANGED rendered
    ELSE /\ pc' = "done"
         /\ rendered' = Render(l, prov, songQuery)

\* on in the primary try block, or out of it
GoOn(next, l, prov) ==
    IF next = "primary_done"
    THEN LeavePrimary(l, prov)
    ELSE /\ pc' = next
         /\ UNCHANGED rendered

\* lines 91-125: the request arrives; to the first await, or the empty-query page
Receive ==
    /\ pc = "idle"
    /\ songQuery' = Trim(body)
    /\ IF songQuery' = <<>>
       THEN /\ pc' = "done"
            /\ rendered' = RenderEmptyQuery
            /\ UNCHANGED parsed
       ELSE /\ parsed' = parseQuery(songQuery')
            /\ pc' = AfterPrimary("start", <<>>, parsed')
            /\ UNCHANGED rendered
    /\ UNCHANGED <<body, lyrics, provider, results, ranked, chosen, calls, text>>

\* a lyricsFinder call of the try block returns o
PrimaryReturns(step, artist, title, o) ==
    /\ calls' = Append(calls, Call(step, artist, title, 0, o))
    /\ IF o.threw
       THEN /\ UNCHANGED <<lyrics, provider>>
            /\ GoOn(AfterPrimaryThrew(step, lyrics, parsed), lyrics, provider)
       ELSE /\ lyrics' = o.text
            /\ provider' = Tag(o.text, TagOf(step))
            /\ GoOn(AfterPrimary(step, o.text, parsed), o.text, provider')
    /\ UNCHANGED <<body, songQuery, parsed, results, ranked, chosen, text>>

\* line 126: lyrics = await lyricsFinder(parsed.artist, parsed.title)
ParsedReturns ==
    /\ pc = "await_parsed"
    /\ \E o \in TextOutcomes : PrimaryReturns("parsed", parsed.artist, parsed.title, o)

\* line 130: lyrics = await lyricsFinder(parsed.alt.artist, parsed.alt.title)
AltReturns ==
    /\ pc = "await_alt"
    /\ \E o \in TextOutcomes : PrimaryReturns("alt", parsed.alt.artist, parsed.alt.title, o)

\* line 134: lyrics = await lyricsFinder(null, songQuery)
FreeformReturns ==
    /\ pc = "await_freeform"
    /\ \E o \in TextOutcomes : PrimaryReturns("freeform", <<>>, songQuery, o)

\* line 146: const results = await genius.songs.search(songQuery), and on to
\* the await of line 161 or to the page
SearchReturns ==
    /\ pc = "await_search"
    /\ \E o \in SearchOutcomes :
          /\ calls' = Append(calls, Call("search", <<>>, songQuery, 0, [threw |-> o.threw, text |-> <<>>]))
          /\ IF o.threw
             THEN /\ pc' = "done"
                  /\ rendered' = GeniusCatch(lyrics, provider, songQuery)
                  /\ UNCHANGED <<results, ranked, chosen>>
             ELSE /\ results' = o.list
                  /\ IF Len(o.list) > 0
                     THEN /\ ranked' = Rank(o.list, parsed, songQuery)
                          /\ chosen' = Chosen(ranked')
                          /\ pc' = "await_fetch"
                          /\ UNCHANGED rendered
                     ELSE /\ pc' = "done"
                          /\ rendered' = Render(lyrics, provider, songQuery)
                          /\ UNCHANGED <<ranked, chosen>>
    /\ UNCHANGED <<body, songQuery, parsed, lyrics, provider, text>>

\* line 161: lyrics = await chosen.lyrics(), and on to the page
FetchReturns ==
    /\ pc = "await_fetch"
    /\ \E o \in TextOutcomes :
          /\ calls' = Append(calls, Call("fetch", results[chosen].artist, results[chosen].title, chosen, o))
          /\ pc' = "done"
          /\ IF o.threw
             THEN /\ UNCHANGED <<lyrics, provider>>
                  /\ rendered' = GeniusCatch(lyrics, provider, songQuery)
             ELSE /\ lyrics' = o.text
                  /\ provider' = Tag(o.text, TagOf("fetch"))
                  /\ rendered' = Render(o.text, provider', songQuery)
    /\ UNCHANGED <<body, songQuery, parsed, results, ranked, chosen, text>>

Next ==
    \/ Receive
    \/ ParsedReturns
    \/ AltReturns
    \/ FreeformReturns
    \/ SearchReturns
    \/ FetchReturns

Spec == Init /\ [][Next]_vars

(***************************************************************************)
(* parseQuery alone, on every posted text up to MaxQueryLen chunks.        *)
(***************************************************************************)
InitParse ==
    /\ pc = "idle"
    /\ body \in Queries
    /\ songQuery = <<>>
    /\ parsed = NoParse
    /\ lyrics = <<>>
    /\ provider = "null"
    /\ results = <<>>
    /\ ranked = <<>>
    /\ chosen = 0
    /\ calls = <<>>
    /\ rendered = NoRender
    /\ text = <<>>

SpecParse == InitParse /\ [][Receive]_vars

(***************************************************************************)
(* sanitizeLyrics alone, applied and applied again, on every text up to    *)
(* MaxTextLen chunks.  text holds the raw text and the results so far.     *)
(***************************************************************************)
TextChunks == {"x", " ", "\n", "\r", "5", "Contributors", "Lyrics", "Read More",
               "You might also like", "Embed", "[Verse 1]", "[Verse 2]", "[Chorus]"}

InitSanitize ==
    /\ pc = "sanitize"
    /\ text \in {<<t>> : t \in SeqsUpTo(TextChunks, MaxTextLen)}
    /\ body = <<>>
    /\ songQuery = <<>>
    /\ parsed = NoParse
    /\ lyrics = <<>>
    /\ provider = "null"
    /\ results = <<>>
    /\ ranked = <<>>
    /\ chosen = 0
    /\ calls = <<>>
    /\ rendered = NoRender

Sanitize ==
    /\ pc = "sanitize"
    /\ Len(text) < 3
    /\ text' = Append(text, sanitizeLyrics(text[Len(text)]))
    /\ UNCHANGED <<pc, body, songQuery, parsed, lyrics, provider, results, ranked,
                   chosen, calls, rendered>>

SpecSanitize == InitSanitize /\ [][Sanitize]_vars

(***************************************************************************)
(* The claims.                                                             *)
(***************************************************************************)
Awaiting == pc \in {"await_parsed", "await_alt", "await_freeform", "await_search", "await_fetch"}

IsPrimary(c) == c.step \in {"parsed", "alt", "freeform"}

\* the call returned without raising and without text
ReturnedEmpty(c) == ~c.threw /\ c.text = <<>>

\* C1: within one request, once a provider call has returned non-empty
\* lyrics no further provider call of any kind is made or awaited: only the
\* last call of a request can have returned text, and then nothing is awaited.
C1_NoCallAfterLyrics ==
    /\ \A i \in 1..(Len(calls) - 1) : calls[i].text = <<>>
    /\ Awaiting => \A i \in 1..Len(calls) : calls[i].text = <<>>

\* C1 witness: a request that ended on text from a primary call, Genius never asked
C1_Witness ==
    /\ pc = "done"
    /\ Len(calls) >= 2
    /\ IsPrimary(calls[Len(calls)])
    /\ calls[Len(calls)].text # <<>>
    /\ \A i \in 1..Len(calls) : calls[i].step \notin {"search", "fetch"}

Sanitizer(raw, prov) ==
    IF prov = "genius" THEN StartAtVerse1(sanitizeLyrics(raw)) ELSE sanitizeLyrics(raw)

\* C3: when a provider returned non-empty lyrics, the text rendered is the
\* output of the Lyrics Sanitizer applied to that raw text.
C3_RenderedIsSanitized ==
    (pc = "done" /\ ~rendered.lyricsNull) =>
        rendered.lyrics = Sanitizer(calls[Len(calls)].text, provider)

\* C4: with an alternate reading, the first call is the parsed one; when it
\* returns empty the alternate call follows with artist and title swapped;
\* when that returns text the request ends there with that text, the tag
\* lyrics-finder(alt), and exactly those two calls.
C4_AltSucceeds ==
    (pc # "idle" /\ parsed.hasAlt) =>
        /\ Len(calls) = 0 => pc = "await_parsed"
        /\ Len(calls) >= 1 =>
              /\ calls[1].step = "parsed"
              /\ calls[1].artist = parsed.artist /\ calls[1].title = parsed.title
        /\ (Len(calls) = 1 /\ ReturnedEmpty(calls[1])) => pc = "await_alt"
        /\ (Len(calls) >= 2 /\ ReturnedEmpty(calls[1])) =>
              /\ calls[2].step = "alt"
              /\ calls[2].artist = parsed.title /\ calls[2].title = parsed.artist
              /\ calls[2].text # <<>> =>
                    /\ pc = "done"
                    /\ Len(calls) = 2
                    /\ ~rendered.lyricsNull
                    /\ rendered.lyrics = calls[2].text
                    /\ rendered.provider = "lyrics-finder(alt)"
                    /\ rendered.error = "none"

\* C4 witness: the parsed call returned empty, the alternate call returned text
C4_Witness ==
    /\ pc = "done"
    /\ parsed.hasAlt
    /\ Len(calls) = 2
    /\ ReturnedEmpty(calls[1])
    /\ calls[2].step = "alt" /\ calls[2].text # <<>>
    /\ calls[2].artist # calls[1].artist

\* C5: a request with a non-empty query in which every provider call raised
\* or returned empty ends, and ends on the not-found page for that query
\* with no provenance: never on the something-went-wrong page, never on lyrics.
C5_AllFailIsNotFound ==
    /\ (pc \notin {"idle", "done"}) => ENABLED Next
    /\ (pc = "done" /\ songQuery # <<>> /\ \A i \in 1..Len(calls) : calls[i].text = <<>>) =>
          /\ rendered.error = "No lyrics found"
          /\ rendered.lyricsNull
          /\ rendered.song = songQuery
          /\ provider = "null"

\* C5 witness: every call of the chain was made and raised or returned empty
C5_Witness ==
    /\ pc = "done"
    /\ rendered.error = "No lyrics found"
    /\ Len(calls) = 5
    /\ \A i \in 1..4 : ReturnedEmpty(calls[i])
    /\ calls[5].threw

\* C6: sanitizeLyrics is idempotent: applied to its own output it changes nothing.
C6_Idempotent == Len(text) = 3 => text[3] = text[2]

\* the number of places where the separator ' - ' occurs in s
DashCount(s) == Cardinality({i \in 1..Len(s) : DashAt(s, i)})

\* the part of s before, and after, its one separator
BeforeDash(s) == SubSeq(s, 1, (CHOOSE i \in 1..Len(s) : DashAt(s, i)) - 1)

AfterDash(s) == Drop(s, (CHOOSE i \in 1..Len(s) : DashAt(s, i)) + 2)

\* artist is the part before the separator and title the part after it (up
\* to white space), with an alternate that swaps them
DashReading(p, s) ==
    /\ p.artist = Trim(NormalizeWs(BeforeDash(s)))
    /\ p.title = Trim(NormalizeWs(AfterDash(s)))
    /\ p.hasAlt
    /\ p.alt.title = p.artist
    /\ p.alt.artist = p.title

\* s holds the word "by" between spaces, with text before and after
HasByWord(s) ==
    \E i \in 2..(Len(s) - 3) : s[i] = " " /\ s[i+1] = "by" /\ s[i+2] = " "

\* C7 as stated: every trimmed non-empty query with exactly one ' - ',
\* whatever else it contains, is read as artist - title with the swapped
\* alternate.
C7_Original ==
    (pc # "idle" /\ DashCount(songQuery) = 1) => DashReading(parsed, songQuery)

\* C7 amended: every trimmed non-empty query whose whitespace-normalized form
\* is not of the shape <A> by <B> and contains exactly one ' - ' is read as
\* artist - title with the swapped alternate.
C7_OneDashNoBy ==
    LET normalized == Trim(NormalizeWs(songQuery))
    IN  (pc # "idle" /\ DashCount(normalized) = 1 /\ ~HasByWord(normalized)) =>
            DashReading(parsed, normalized)

\* C7 witness: a query with one separator, tabs around it, and the word by
\* inside a longer word
C7_Witness ==
    /\ pc # "idle"
    /\ songQuery = <<"x", "by", "\t", "-", " ", "-">>
    /\ parsed.hasAlt
    /\ parsed.artist = <<"x", "by">>
    /\ parsed.title = <<"-">>

\* the two terms of the score of the specification
TitleTerm(r) == IF TitleMatch(r, parsed, songQuery) THEN 2 ELSE 0

ArtistTerm(r) == IF ArtistMatch(r, parsed) THEN 1 ELSE 0

\* C8: the score of every ranked candidate is the sum of its title term (2
\* or 0) and its artist term (1 or 0), each evaluated on its own.
C8_ScoreIsSum ==
    \A i \in 1..Len(ranked) :
        ranked[i].score = TitleTerm(results[ranked[i].item]) + ArtistTerm(results[ranked[i].item])

ScoreOf(i) == Score(results[i], parsed, songQuery)

\* C9: for a non-empty result list one candidate is chosen; it has the
\* maximum score and is the earliest of those that have it; the lyrics fetch
\* is awaited or made, for that candidate only.
C9_ChosenIsFirstBest ==
    Len(results) > 0 =>
        /\ chosen \in 1..Len(results)
        /\ \A j \in 1..Len(results) : ScoreOf(j) <= ScoreOf(chosen)
        /\ \A j \in 1..(chosen - 1) : ScoreOf(j) < ScoreOf(chosen)
        /\ pc = "await_fetch" \/ calls[Len(calls)].step = "fetch"
        /\ \A i \in 1..Len(calls) :
              calls[i].step = "fetch" =>
                 /\ i = Len(calls)
                 /\ calls[i].item = chosen
                 /\ calls[i].title = results[chosen].title

\* C9 witness: three results, the first scoring less than the other two,
\* which tie; the second was chosen and fetched
C9_Witness ==
    /\ pc = "done"
    /\ Len(results) = 3
    /\ ScoreOf(1) < ScoreOf(2)
    /\ ScoreOf(2) = ScoreOf(3)
    /\ chosen = 2
    /\ calls[Len(calls)].step = "fetch"

\* C10: the provenance tag is non-null exactly when there are lyrics, and
\* when the response is decided a non-null tag names the step of the call
\* that returned the text rendered (for Genius, the text rendered is that
\* text or its tail).
C10_TagMatchesText ==
    /\ (provider # "null") <=> (lyrics # <<>>)
    /\ (pc = "done" /\ songQuery # <<>>) => (rendered.lyricsNull <=> provider = "null")
    /\ (pc = "done" /\ provider # "null") =>
          LET last == calls[Len(calls)]
          IN  /\ last.text = lyrics
              /\ rendered.provider = provider
              /\ provider = CASE last.step = "parsed" -> "lyrics-finder(parsed)"
                              [] last.step = "alt" -> "lyrics-finder(alt)"
                              [] last.step = "freeform" -> "lyrics-finder(freeform)"
                              [] last.step = "fetch" -> "genius"
                              [] OTHER -> "null"
              /\ IF IsPrimary(last) THEN rendered.lyrics = last.text
                 ELSE \E k \in 0..Len(last.text) : rendered.lyrics = Drop(last.text, k)

\* C10 witness: after an error and empty results, Genius returned the text
\* and the page shows its tail under the tag genius
C10_Witness ==
    /\ pc = "done"
    /\ provider = "genius"
    /\ calls[1].threw
    /\ rendered.lyrics # lyrics
    /\ rendered.lyrics # <<>>

====
